---- MODULE Spec2Model ----
(***************************************************************************)
(* Storage accounting and hierarchy engine of Vinnodrive (storageRouter).  *)
(* The relational tables are functions from primary key to row, the blob   *)
(* store is the set of keys present in the bucket, and every tRPC handler  *)
(* is translated from packages/auth/src/index.ts.                          *)
(*                                                                         *)
(* Sizes are counted in units of 512 MiB, so DEFAULT_STORAGE_LIMIT (1 GiB) *)
(* is 2 and MAX_FILE_SIZE (10 GiB) is 20.  Timestamps are milliseconds.    *)
(* deletedAt is modelled by its null-ness (FALSE = null = active), the     *)
(* only thing the handlers test.                                           *)
(***************************************************************************)
EXTENDS Integers, Sequences, FiniteSets, TLC

VARIABLES
  files,            \* files table: hash -> [size, refCount]  (path = hash)
  blobs,            \* keys present in the R2 bucket
  presigned,        \* keys for which a PUT url was handed out
  userAssets,       \* user_assets table: id -> [userId, folderId, fileHash, deletedAt,
                    \*                           isPublic, publicShareId, downloadCount]
  folders,          \* folders table: id -> [userId, parentId, deletedAt]
  userQuotas,       \* user_quotas table: userId -> [storageUsed, storageLimit, rateLimit]
  rateLimitWindows, \* rate_limit_windows table: id -> [userId, windowStart, requestCount]
  now,              \* wall clock, ms
  declared,         \* history: asset id -> size declared by the request that created it
  nextWindowId,     \* history: rate_limit_windows ids are fresh (crypto.randomUUID)
  reqLog,           \* history: clock advances, requests, and per user the latest window's
                    \* [window, requests, admitted]
  nextFolderId,     \* history: folder ids are fresh (crypto.randomUUID), never reused
  last,             \* the request that completed last, with its result
  procs             \* in-flight requests: handler, position and locals of each worker

vars == <<files, blobs, presigned, userAssets, folders, userQuotas,
          rateLimitWindows, nextWindowId, now, declared, reqLog, nextFolderId, last,
          procs>>

---------------------------------------------------------------------------
(* Bounds of the model *)
MaxAssets  == 3      \* asset rows ever inserted
MaxFolders == 3      \* folder rows ever inserted
MaxSize    == 2      \* largest declared size, in units
MaxTicks   == 3      \* clock advances in the rate-limiter specification
MaxRequests == 4     \* requests in the rate-limiter specification
MaxRateLimit == 2    \* largest per-user rateLimit configured in user_quotas
MaxPurgers == 3      \* concurrent purge calls in the purge specification
MaxWorkers == 2      \* request handlers running at once in the concurrent specifications
MaxReaders == 3      \* getPublicFile calls in the public-read specification
MaxShares  == 2      \* share ids that togglePublic can draw

(* Program constants *)
DEFAULT_STORAGE_LIMIT == 2
DEFAULT_RATE_LIMIT == 2
RATE_LIMIT_WINDOW_MS == 1000
MAX_FILE_SIZE == 20
WINDOW_RETENTION_MS == 60000

NULL == 0

Users  == {"u1", "u2"}
Hashes == {"h1", "h2"}
Sizes  == {s \in 1..MaxSize : s <= MAX_FILE_SIZE}
AssetIds  == 1..MaxAssets
FolderIds == 1..MaxFolders

---------------------------------------------------------------------------
(* Table helpers *)
Insert(tbl, k, row) == [x \in DOMAIN tbl \cup {k} |-> IF x = k THEN row ELSE tbl[x]]

Delete(tbl, ks) == [x \in DOMAIN tbl \ ks |-> tbl[x]]

Max(a, b) == IF a >= b THEN a ELSE b

Min(a, b) == IF a <= b THEN a ELSE b

EmptyTable == [x \in {} |-> 0]

RECURSIVE SumOver(_, _)
SumOver(f, S) ==
  IF S = {} THEN 0
  ELSE LET x == CHOOSE y \in S : TRUE IN f[x] + SumOver(f, S \ {x})

NoRequest == [op |-> "none", user |-> "none", id |-> NULL, target |-> NULL,
              hash |-> "none", size |-> 0, result |-> "none"]

Done(op, u, id, target, h, s, res) ==
  [op |-> op, user |-> u, id |-> id, target |-> target, hash |-> h, size |-> s,
   result |-> res]

NextAssetId == Cardinality(DOMAIN declared) + 1

---------------------------------------------------------------------------
(* Admission control: quota *)

DefaultQuota(used) ==
  [storageUsed |-> used, storageLimit |-> DEFAULT_STORAGE_LIMIT,
   rateLimit |-> DEFAULT_RATE_LIMIT]

\* checkStorageQuota: the quota table after the fetch-or-create, and whether
\* the request passes.
CheckStorageQuota(quotas, u, additionalBytes) ==
  LET q  == IF u \in DOMAIN quotas THEN quotas[u] ELSE DefaultQuota(0)
      qs == IF u \in DOMAIN quotas THEN quotas ELSE Insert(quotas, u, DefaultQuota(0))
  IN [quotas |-> qs,
      ok |-> ~(q.storageUsed + additionalBytes > q.storageLimit)]

\* Mutant of updateStorageUsage: a plain add, without the floor
UpdateStorageUsageUnclamped(quotas, u, deltaBytes) ==
  IF u \in DOMAIN quotas
    THEN [quotas EXCEPT ![u].storageUsed = @ + deltaBytes]
    ELSE Insert(quotas, u, DefaultQuota(deltaBytes))

\* updateStorageUsage: INSERT ... ON CONFLICT DO UPDATE SET GREATEST(0, used + delta)
UpdateStorageUsage(quotas, u, deltaBytes) ==
  IF u \in DOMAIN quotas
    THEN [quotas EXCEPT ![u].storageUsed = Max(0, @ + deltaBytes)]
    ELSE Insert(quotas, u, DefaultQuota(Max(0, deltaBytes)))

---------------------------------------------------------------------------
(* Admission control: rate limiter (checkRateLimit) *)

WindowStart(t) == (t \div RATE_LIMIT_WINDOW_MS) * RATE_LIMIT_WINDOW_MS

\* quota?.rateLimit ?? DEFAULT_RATE_LIMIT
RateLimitOf(quotas, u) ==
  IF u \in DOMAIN quotas THEN quotas[u].rateLimit ELSE DEFAULT_RATE_LIMIT

\* The rows findFirst(rateLimitWindows, userId, windowStart) may return
CurrentWindows(windows, u, windowStart) ==
  {w \in DOMAIN windows : windows[w].userId = u /\ windows[w].windowStart = windowStart}

\* Mutant of the limit test: one request too many
ExceededStrict(row, rateLimit) == row.requestCount > rateLimit

\* currentWindow.requestCount >= rateLimit
Exceeded(row, rateLimit) == row.requestCount >= rateLimit

\* UPDATE rate_limit_windows SET request_count = request_count + 1 WHERE id
IncrementWindow(windows, w) ==
  IF w \in DOMAIN windows THEN [windows EXCEPT ![w].requestCount = @ + 1] ELSE windows

\* INSERT the window at 1, then DELETE the user's windows older than a minute
InsertWindow(windows, w, u, windowStart, t) ==
  LET ws == Insert(windows, w, [userId |-> u, windowStart |-> windowStart,
                                requestCount |-> 1])
  IN Delete(ws, {x \in DOMAIN ws : /\ ws[x].userId = u
                                   /\ ws[x].windowStart < t - WINDOW_RETENTION_MS})

---------------------------------------------------------------------------
(* Content store: the three transaction bodies.  A transaction value st    *)
(* carries the tables it writes, the bucket (not rolled back), ok = FALSE  *)
(* once a statement has thrown, and what the body observed.                *)

BeginTx(fl, ua, fo, bl) ==
  [files |-> fl, userAssets |-> ua, folders |-> fo, blobs |-> bl, ok |-> TRUE,
   s3del |-> 0, rowdel |-> 0, minRc |-> 1, freed |-> 0]

\* Foreign keys of user_assets: folder_id -> folders.id, file_hash -> files.hash
AssetFkOk(st, folderId, h) ==
  /\ folderId = NULL \/ folderId \in DOMAIN st.folders
  /\ h \in DOMAIN st.files

NewAsset(u, folderId, h) ==
  [userId |-> u, folderId |-> folderId, fileHash |-> h, deletedAt |-> FALSE,
   isPublic |-> FALSE, publicShareId |-> NULL, downloadCount |-> 0]

\* getUploadPresignedUrl, deduplicated branch: insert the asset, refCount + 1
LinkTx(st, id, u, h, folderId) ==
  IF ~AssetFkOk(st, folderId, h) THEN [st EXCEPT !.ok = FALSE]
  ELSE [st EXCEPT !.userAssets = Insert(@, id, NewAsset(u, folderId, h)),
                  !.files = [@ EXCEPT ![h].refCount = @ + 1]]

\* Mutant of the upsert: ON CONFLICT DO NOTHING, the count is not incremented
UpsertFileDoNothing(fl, h, size) ==
  IF h \in DOMAIN fl THEN fl
  ELSE Insert(fl, h, [size |-> size, refCount |-> 1])

\* confirmUpload: upsert the files row (insert at 1, or refCount + 1), insert the asset
UpsertFile(fl, h, size) ==
  IF h \in DOMAIN fl THEN [fl EXCEPT ![h].refCount = @ + 1]
  ELSE Insert(fl, h, [size |-> size, refCount |-> 1])

ConfirmTx(st, id, u, h, size, folderId) ==
  LET st1 == [st EXCEPT !.files = UpsertFile(@, h, size)]
  IN IF ~AssetFkOk(st1, folderId, h) THEN [st1 EXCEPT !.ok = FALSE]
     ELSE [st1 EXCEPT !.userAssets = Insert(@, id, NewAsset(u, folderId, h))]

\* Mutant of the last-reference test: frees while one reference remains
LastReferenceEarly(rc) == rc <= 1

\* The condition under which a purge deletes blob and files row
LastReference(rc) == rc <= 0

\* One purge inside a transaction: delete the asset row, refCount - 1 RETURNING,
\* and when the count is spent delete the blob, then the files row.  The files row
\* delete throws while another asset still references the hash (ON DELETE restrict).
PurgeOne(st, id, h, size) ==
  IF ~st.ok THEN st
  ELSE
    LET ua      == Delete(st.userAssets, {id})
        hasFile == h \in DOMAIN st.files
        rc      == IF hasFile THEN st.files[h].refCount - 1 ELSE 1
        fl      == IF hasFile THEN [st.files EXCEPT ![h].refCount = rc] ELSE st.files
        st1     == [st EXCEPT !.userAssets = ua, !.files = fl,
                              !.minRc = Min(@, rc), !.freed = @ + size]
    IN IF hasFile /\ LastReference(rc)
         THEN IF \E a \in DOMAIN ua : ua[a].fileHash = h
                THEN [st1 EXCEPT !.blobs = @ \ {h}, !.s3del = @ + 1, !.ok = FALSE]
                ELSE [st1 EXCEPT !.blobs = @ \ {h}, !.s3del = @ + 1,
                                 !.files = Delete(@, {h}), !.rowdel = @ + 1]
         ELSE st1

---------------------------------------------------------------------------
(* Request handlers, each run to completion (requests that do not overlap). *)
(* The rateLimitedProcedure middleware writes rate_limit_windows only and    *)
(* reads user_quotas.rateLimit only; it is modelled by CheckRateLimit and    *)
(* RateLimitedRequest below, and the handlers here are the requests it       *)
(* admitted.                                                                 *)

rateVars == <<rateLimitWindows, nextWindowId, now, reqLog>>

storeVars == <<files, blobs, presigned, userQuotas, declared>>

\* Mutant of db.transaction: the statements that ran before the throw stay
ApplyTxNoRollback(st) ==
  /\ blobs' = st.blobs
  /\ files' = st.files /\ userAssets' = st.userAssets /\ folders' = st.folders

\* The outcome of db.transaction: the bucket keeps what the body did to it, the
\* tables change only when the body did not throw.
ApplyTx(st) ==
  /\ blobs' = st.blobs
  /\ IF st.ok
       THEN files' = st.files /\ userAssets' = st.userAssets /\ folders' = st.folders
       ELSE UNCHANGED <<files, userAssets, folders>>

GetUploadPresignedUrl(u, h, s, f) ==
  LET q  == CheckStorageQuota(userQuotas, u, s)
      id == NextAssetId
      st == LinkTx(BeginTx(files, userAssets, folders, blobs), id, u, h, f)
  IN /\ UNCHANGED <<rateVars, procs, nextFolderId>>
     /\ IF ~q.ok
          THEN /\ userQuotas' = q.quotas
               /\ UNCHANGED <<files, blobs, presigned, userAssets, folders, declared>>
               /\ last' = Done("getUploadPresignedUrl", u, NULL, f, h, s, "PAYLOAD_TOO_LARGE")
          ELSE IF h \in DOMAIN files
            THEN /\ ApplyTx(st)
                 /\ UNCHANGED presigned
                 /\ IF st.ok
                      THEN /\ userQuotas' = UpdateStorageUsage(q.quotas, u, s)
                           /\ declared' = Insert(declared, id, s)
                           /\ last' = Done("getUploadPresignedUrl", u, id, f, h, s, "OK")
                      ELSE /\ userQuotas' = q.quotas
                           /\ UNCHANGED declared
                           /\ last' = Done("getUploadPresignedUrl", u, NULL, f, h, s,
                                           "INTERNAL_SERVER_ERROR")
            ELSE /\ userQuotas' = q.quotas
                 /\ presigned' = presigned \cup {h}
                 /\ UNCHANGED <<files, blobs, userAssets, folders, declared>>
                 /\ last' = Done("getUploadPresignedUrl", u, NULL, f, h, s, "PRESIGNED")

\* The client PUTs the bytes to a presigned url (valid for an hour).
ClientPut(h) ==
  /\ h \in presigned
  /\ h \notin blobs
  /\ blobs' = blobs \cup {h}
  /\ last' = Done("put", "none", NULL, NULL, h, 0, "OK")
  /\ UNCHANGED <<files, presigned, userAssets, folders, userQuotas, rateVars,
                 declared, procs, nextFolderId>>

ConfirmUpload(u, h, s, f) ==
  LET id == NextAssetId
      st == ConfirmTx(BeginTx(files, userAssets, folders, blobs), id, u, h, s, f)
  IN /\ UNCHANGED <<rateVars, procs, presigned, nextFolderId>>
     /\ IF h \notin blobs
          THEN /\ UNCHANGED <<files, blobs, userAssets, folders, userQuotas, declared>>
               /\ last' = Done("confirmUpload", u, NULL, f, h, s, "NOT_FOUND")
          ELSE /\ ApplyTx(st)
               /\ IF st.ok
                    THEN /\ userQuotas' = UpdateStorageUsage(userQuotas, u, s)
                         /\ declared' = Insert(declared, id, s)
                         /\ last' = Done("confirmUpload", u, id, f, h, s, "OK")
                    ELSE /\ UNCHANGED <<userQuotas, declared>>
                         /\ last' = Done("confirmUpload", u, NULL, f, h, s,
                                         "INTERNAL_SERVER_ERROR")

\* findFirst(userAssets, id, userId [, deletedAt IS NOT NULL]) with: { file: true }
FindAsset(ua, u, id, trashedOnly) ==
  /\ id \in DOMAIN ua
  /\ ua[id].userId = u
  /\ trashedOnly => ua[id].deletedAt

\* deleteAsset and permanentlyDelete differ in the lookup only.
PurgeAsset(op, u, id, trashedOnly) ==
  /\ UNCHANGED <<rateVars, procs, presigned, declared, nextFolderId>>
  /\ IF ~FindAsset(userAssets, u, id, trashedOnly)
       THEN /\ UNCHANGED <<files, blobs, userAssets, folders, userQuotas>>
            /\ last' = Done(op, u, id, NULL, "none", 0, "NOT_FOUND")
       ELSE LET fileHash == userAssets[id].fileHash
                fileSize == files[fileHash].size
                st == PurgeOne(BeginTx(files, userAssets, folders, blobs),
                               id, fileHash, fileSize)
            IN /\ ApplyTx(st)
               /\ IF st.ok
                    THEN /\ userQuotas' = UpdateStorageUsage(userQuotas, u, -fileSize)
                         /\ last' = Done(op, u, id, NULL, fileHash, fileSize, "OK")
                    ELSE /\ UNCHANGED userQuotas
                         /\ last' = Done(op, u, id, NULL, fileHash, fileSize,
                                         "INTERNAL_SERVER_ERROR")

DeleteAsset(u, id) == PurgeAsset("deleteAsset", u, id, FALSE)

PermanentlyDelete(u, id) == PurgeAsset("permanentlyDelete", u, id, TRUE)

\* Mutant of moveToTrash / restoreFromTrash: trashing releases the bytes, restoring
\* charges them again
SetAssetDeletedReleasing(op, u, id, from, to) ==
  /\ UNCHANGED <<files, blobs, presigned, folders, rateVars, declared, procs, nextFolderId>>
  /\ IF id \in DOMAIN userAssets /\ userAssets[id].userId = u
        /\ userAssets[id].deletedAt = from
       THEN /\ userAssets' = [userAssets EXCEPT ![id].deletedAt = to]
            /\ userQuotas' = UpdateStorageUsage(userQuotas, u,
                                IF to THEN -files[userAssets[id].fileHash].size
                                ELSE files[userAssets[id].fileHash].size)
            /\ last' = Done(op, u, id, NULL, "none", 0, "OK")
       ELSE /\ UNCHANGED <<userAssets, userQuotas>>
            /\ last' = Done(op, u, id, NULL, "none", 0, "NOT_FOUND")

\* Mutant of moveToTrash / restoreFromTrash: the update does not test deletedAt
SetAssetDeletedAnyState(op, u, id, from, to) ==
  /\ UNCHANGED <<files, blobs, presigned, folders, userQuotas, rateVars, declared, procs,
                 nextFolderId>>
  /\ IF id \in DOMAIN userAssets /\ userAssets[id].userId = u
       THEN /\ userAssets' = [userAssets EXCEPT ![id].deletedAt = to]
            /\ last' = Done(op, u, id, NULL, "none", 0, "OK")
       ELSE /\ UNCHANGED userAssets
            /\ last' = Done(op, u, id, NULL, "none", 0, "NOT_FOUND")

\* UPDATE user_assets SET deleted_at WHERE id, userId, deleted_at IS [NOT] NULL RETURNING
SetAssetDeleted(op, u, id, from, to) ==
  /\ UNCHANGED <<files, blobs, presigned, folders, userQuotas, rateVars, declared, procs,
                 nextFolderId>>
  /\ IF id \in DOMAIN userAssets /\ userAssets[id].userId = u
        /\ userAssets[id].deletedAt = from
       THEN /\ userAssets' = [userAssets EXCEPT ![id].deletedAt = to]
            /\ last' = Done(op, u, id, NULL, "none", 0, "OK")
       ELSE /\ UNCHANGED userAssets
            /\ last' = Done(op, u, id, NULL, "none", 0, "NOT_FOUND")

MoveToTrash(u, id) == SetAssetDeleted("moveToTrash", u, id, FALSE, TRUE)

RestoreFromTrash(u, id) == SetAssetDeleted("restoreFromTrash", u, id, TRUE, FALSE)

---------------------------------------------------------------------------
(* Folder hierarchy *)

RECURSIVE SeqOfSet(_)
SeqOfSet(S) ==
  IF S = {} THEN << >>
  ELSE LET x == CHOOSE y \in S : \A z \in S : y <= z IN <<x>> \o SeqOfSet(S \ {x})

Range(q) == {q[i] : i \in 1..Len(q)}

\* findMany(folders, parentId = id, userId = u [, deletedAt IS NULL | IS NOT NULL]),
\* rows taken in insertion (id) order
Subfolders(fs, u, id, filter) ==
  {c \in DOMAIN fs : /\ fs[c].parentId = id
                     /\ fs[c].userId = u
                     /\ \/ filter = "any"
                        \/ filter = "active" /\ ~fs[c].deletedAt
                        \/ filter = "trashed" /\ fs[c].deletedAt}

\* collectFolderIds / collectTrashedFolderIds / collectAllFolderIds: the folder, then
\* the walk of each matching subfolder
RECURSIVE CollectIds(_, _, _, _)
RECURSIVE CollectEach(_, _, _, _)
CollectIds(fs, u, id, filter) ==
  <<id>> \o CollectEach(fs, u, SeqOfSet(Subfolders(fs, u, id, filter)), filter)

CollectEach(fs, u, subs, filter) ==
  IF subs = << >> THEN << >>
  ELSE CollectIds(fs, u, Head(subs), filter) \o CollectEach(fs, u, Tail(subs), filter)

\* Mutant of isDescendant: looks at the immediate parent only
IsDescendantShallow(fs, ancestorId, checkId) ==
  checkId \in DOMAIN fs /\ fs[checkId].parentId # NULL /\ fs[checkId].parentId = ancestorId

\* isDescendant(ancestorId, checkId): walks checkId's parent chain
RECURSIVE IsDescendant(_, _, _)
IsDescendant(fs, ancestorId, checkId) ==
  IF checkId \notin DOMAIN fs \/ fs[checkId].parentId = NULL THEN FALSE
  ELSE IF fs[checkId].parentId = ancestorId THEN TRUE
  ELSE IsDescendant(fs, ancestorId, fs[checkId].parentId)

\* Whether the walk of isDescendant returns: on a parent chain that runs into a
\* cycle without meeting ancestorId the recursion never ends.
RECURSIVE WalkEnds(_, _, _, _)
WalkEnds(fs, ancestorId, checkId, fuel) ==
  IF checkId \notin DOMAIN fs \/ fs[checkId].parentId = NULL THEN TRUE
  ELSE IF fs[checkId].parentId = ancestorId THEN TRUE
  ELSE IF fuel = 0 THEN FALSE
  ELSE WalkEnds(fs, ancestorId, fs[checkId].parentId, fuel - 1)

\* findFirst(folders, id, userId [, deletedAt IS NULL | IS NOT NULL])
FindFolder(fs, u, id, filter) ==
  /\ id \in DOMAIN fs
  /\ fs[id].userId = u
  /\ \/ filter = "any"
     \/ filter = "active" /\ ~fs[id].deletedAt
     \/ filter = "trashed" /\ fs[id].deletedAt

treeFrame == <<files, blobs, presigned, userQuotas, rateVars, declared, procs>>

CreateFolder(u, parentId) ==
  /\ UNCHANGED <<treeFrame, userAssets>>
  /\ IF parentId # NULL /\ ~FindFolder(folders, u, parentId, "any")
       THEN /\ UNCHANGED <<folders, nextFolderId>>
            /\ last' = Done("createFolder", u, NULL, parentId, "none", 0, "NOT_FOUND")
       ELSE /\ folders' = Insert(folders, nextFolderId,
                                 [userId |-> u, parentId |-> parentId, deletedAt |-> FALSE])
            /\ nextFolderId' = nextFolderId + 1
            /\ last' = Done("createFolder", u, nextFolderId, parentId, "none", 0, "OK")

\* The verdict of moveFolder's checks, in the order the handler makes them
MoveFolderCheck(fs, u, id, parentId) ==
  IF ~FindFolder(fs, u, id, "active") THEN "NOT_FOUND"
  ELSE IF parentId = id THEN "BAD_REQUEST"
  ELSE IF parentId # NULL /\ ~FindFolder(fs, u, parentId, "active") THEN "NOT_FOUND"
  ELSE IF parentId # NULL /\ ~WalkEnds(fs, id, parentId, Cardinality(DOMAIN fs))
    THEN "NO_RESPONSE"
  ELSE IF parentId # NULL /\ IsDescendant(fs, id, parentId) THEN "BAD_REQUEST"
  ELSE "OK"

MoveFolder(u, id, parentId) ==
  LET res == MoveFolderCheck(folders, u, id, parentId)
  IN /\ UNCHANGED <<treeFrame, userAssets, nextFolderId>>
     /\ folders' = IF res = "OK" THEN [folders EXCEPT ![id].parentId = parentId]
                   ELSE folders
     /\ last' = Done("moveFolder", u, id, parentId, "none", 0, res)

\* The cascade of moveFolderToTrash (to = TRUE) and restoreFolderFromTrash (to = FALSE):
\* the user's assets in the collected folders whose deletedAt differs, then the folders
CascadeAssets(ua, u, folderIds, to) ==
  [a \in DOMAIN ua |->
     IF ua[a].userId = u /\ ua[a].deletedAt # to /\ ua[a].folderId \in folderIds
       THEN [ua[a] EXCEPT !.deletedAt = to] ELSE ua[a]]

CascadeFolders(fs, folderIds, to) ==
  [f \in DOMAIN fs |-> IF f \in folderIds THEN [fs[f] EXCEPT !.deletedAt = to] ELSE fs[f]]

MoveFolderToTrash(u, id) ==
  /\ UNCHANGED <<treeFrame, nextFolderId>>
  /\ IF ~FindFolder(folders, u, id, "active")
       THEN /\ UNCHANGED <<folders, userAssets>>
            /\ last' = Done("moveFolderToTrash", u, id, NULL, "none", 0, "NOT_FOUND")
       ELSE LET folderIds == Range(CollectIds(folders, u, id, "active"))
            IN /\ userAssets' = CascadeAssets(userAssets, u, folderIds, TRUE)
               /\ folders' = CascadeFolders(folders, folderIds, TRUE)
               /\ last' = Done("moveFolderToTrash", u, id, NULL, "none", 0, "OK")

\* Mutant of restoreFolderFromTrash's checks: the parent's deletedAt is not looked at
RestoreFolderCheckNoParent(fs, u, id) ==
  IF ~FindFolder(fs, u, id, "trashed") THEN "NOT_FOUND"
  ELSE IF fs[id].parentId # NULL /\ ~FindFolder(fs, u, fs[id].parentId, "any")
    THEN "PRECONDITION_FAILED"
  ELSE "OK"

\* restoreFolderFromTrash's checks before the cascade
RestoreFolderCheck(fs, u, id) ==
  IF ~FindFolder(fs, u, id, "trashed") THEN "NOT_FOUND"
  ELSE IF fs[id].parentId # NULL /\ ~FindFolder(fs, u, fs[id].parentId, "any")
    THEN "PRECONDITION_FAILED"
  ELSE IF fs[id].parentId # NULL /\ fs[fs[id].parentId].deletedAt
    THEN "PRECONDITION_FAILED"
  ELSE "OK"

\* The tables after restoreFolderFromTrash's cascade
RestoreCascade(fs, ua, u, id) ==
  LET folderIds == Range(CollectIds(fs, u, id, "trashed"))
  IN [userAssets |-> CascadeAssets(ua, u, folderIds, FALSE),
      folders |-> CascadeFolders(fs, folderIds, FALSE)]

RestoreFolderFromTrash(u, id) ==
  LET res == RestoreFolderCheck(folders, u, id)
  IN /\ UNCHANGED <<treeFrame, nextFolderId>>
     /\ last' = Done("restoreFolderFromTrash", u, id, NULL, "none", 0, res)
     /\ IF res # "OK"
          THEN UNCHANGED <<folders, userAssets>>
          ELSE LET out == RestoreCascade(folders, userAssets, u, id)
               IN /\ userAssets' = out.userAssets
                  /\ folders' = out.folders

---------------------------------------------------------------------------
(* Moving assets and batches *)

\* moveFile / moveFiles: the target folder lookup (moveFiles also wants it active)
MoveTargetOk(fs, u, folderId, filter) ==
  folderId = NULL \/ FindFolder(fs, u, folderId, filter)

\* UPDATE user_assets SET folder_id WHERE id AND user_id ... RETURNING
MovesAsset(ua, u, id) == id \in DOMAIN ua /\ ua[id].userId = u

MoveFile(u, id, folderId) ==
  /\ UNCHANGED <<treeFrame, folders, nextFolderId>>
  /\ IF ~MoveTargetOk(folders, u, folderId, "any") \/ ~MovesAsset(userAssets, u, id)
       THEN /\ UNCHANGED userAssets
            /\ last' = Done("moveFile", u, id, folderId, "none", 0, "NOT_FOUND")
       ELSE /\ userAssets' = [userAssets EXCEPT ![id].folderId = folderId]
            /\ last' = Done("moveFile", u, id, folderId, "none", 0, "OK")

\* moveFiles: the loop over input.ids; the tables and movedCount after it
RECURSIVE MoveFilesLoop(_, _, _, _, _)
MoveFilesLoop(ua, u, ids, folderId, movedCount) ==
  IF ids = << >> THEN [userAssets |-> ua, movedCount |-> movedCount]
  ELSE IF MovesAsset(ua, u, Head(ids))
    THEN MoveFilesLoop([ua EXCEPT ![Head(ids)].folderId = folderId], u, Tail(ids),
                       folderId, movedCount + 1)
    ELSE MoveFilesLoop(ua, u, Tail(ids), folderId, movedCount)

\* In last, id holds the batch input.ids and size holds movedCount.
MoveFiles(u, ids, folderId) ==
  /\ UNCHANGED <<treeFrame, folders, nextFolderId>>
  /\ IF ~MoveTargetOk(folders, u, folderId, "active")
       THEN /\ UNCHANGED userAssets
            /\ last' = Done("moveFiles", u, ids, folderId, "none", 0, "NOT_FOUND")
       ELSE LET out == MoveFilesLoop(userAssets, u, ids, folderId, 0)
            IN /\ userAssets' = out.userAssets
               /\ last' = Done("moveFiles", u, ids, folderId, "none", out.movedCount, "OK")

\* moveFolders: the loop over input.ids, each item read after the updates before it
RECURSIVE MoveFoldersLoop(_, _, _, _, _)
MoveFoldersLoop(fs, u, ids, parentId, movedCount) ==
  IF ids = << >> THEN [folders |-> fs, movedCount |-> movedCount]
  ELSE LET id == Head(ids)
       IN IF parentId = id
            THEN MoveFoldersLoop(fs, u, Tail(ids), parentId, movedCount)
          ELSE IF parentId # NULL /\ IsDescendant(fs, id, parentId)
            THEN MoveFoldersLoop(fs, u, Tail(ids), parentId, movedCount)
          ELSE IF FindFolder(fs, u, id, "active")
            THEN MoveFoldersLoop([fs EXCEPT ![id].parentId = parentId], u, Tail(ids),
                                 parentId, movedCount + 1)
          ELSE MoveFoldersLoop(fs, u, Tail(ids), parentId, movedCount)

MoveFolders(u, ids, parentId) ==
  /\ UNCHANGED <<treeFrame, userAssets, nextFolderId>>
  /\ IF ~MoveTargetOk(folders, u, parentId, "active")
       THEN /\ UNCHANGED folders
            /\ last' = Done("moveFolders", u, ids, parentId, "none", 0, "NOT_FOUND")
       ELSE LET out == MoveFoldersLoop(folders, u, ids, parentId, 0)
            IN /\ folders' = out.folders
               /\ last' = Done("moveFolders", u, ids, parentId, "none", out.movedCount, "OK")

---------------------------------------------------------------------------
(* Permanent removal of folders *)

Reverse(q) == [i \in 1..Len(q) |-> q[Len(q) + 1 - i]]

\* The purge loop of permanentlyDeleteFolder and emptyTrash over the assets read
\* before the transaction (ua0 and fl0 are that read, with: { file: true })
RECURSIVE PurgeEach(_, _, _, _)
PurgeEach(st, ua0, fl0, ids) ==
  IF ids = << >> THEN st
  ELSE LET a == Head(ids)
           h == ua0[a].fileHash
       IN PurgeEach(PurgeOne(st, a, h, fl0[h].size), ua0, fl0, Tail(ids))

\* tx.delete(folders) for each id of order; user_assets.folder_id is ON DELETE
\* set null, folders.parent_id carries no foreign key
RECURSIVE DeleteFolderRows(_, _)
DeleteFolderRows(st, order) ==
  IF order = << >> \/ ~st.ok THEN st
  ELSE LET f  == Head(order)
           ua == [a \in DOMAIN st.userAssets |->
                    IF st.userAssets[a].folderId = f
                      THEN [st.userAssets[a] EXCEPT !.folderId = NULL]
                      ELSE st.userAssets[a]]
       IN DeleteFolderRows([st EXCEPT !.folders = Delete(@, {f}), !.userAssets = ua],
                           Tail(order))

\* permanentlyDeleteFolder: folderIds.reverse() of collectAllFolderIds
PurgeOrder(fs, u, id) == Reverse(CollectIds(fs, u, id, "any"))

\* permanentlyDeleteFolder: the user's assets whose folderId is one of folderIds
AssetsInFolders(ua, u, folderIds) ==
  {a \in DOMAIN ua : ua[a].userId = u /\ ua[a].folderId \in folderIds}

PermanentlyDeleteFolder(u, id) ==
  /\ UNCHANGED <<rateVars, procs, presigned, declared, nextFolderId>>
  /\ IF ~FindFolder(folders, u, id, "trashed")
       THEN /\ UNCHANGED <<files, blobs, userAssets, folders, userQuotas>>
            /\ last' = Done("permanentlyDeleteFolder", u, id, NULL, "none", 0, "NOT_FOUND")
       ELSE LET order  == PurgeOrder(folders, u, id)
                assets == SeqOfSet(AssetsInFolders(userAssets, u, Range(order)))
                st1 == PurgeEach(BeginTx(files, userAssets, folders, blobs),
                                 userAssets, files, assets)
                st  == DeleteFolderRows(st1, order)
            IN /\ ApplyTx(st)
               /\ IF st.ok
                    THEN /\ userQuotas' = UpdateStorageUsage(userQuotas, u, -st.freed)
                         /\ last' = Done("permanentlyDeleteFolder", u, id, NULL, "none",
                                         st.freed, "OK")
                    ELSE /\ UNCHANGED userQuotas
                         /\ last' = Done("permanentlyDeleteFolder", u, id, NULL, "none",
                                         0, "INTERNAL_SERVER_ERROR")

\* emptyTrash: findMany of the user's trashed assets / trashed folders
TrashedAssets(ua, u) == {a \in DOMAIN ua : ua[a].userId = u /\ ua[a].deletedAt}

TrashedFolders(fs, u) == {f \in DOMAIN fs : fs[f].userId = u /\ fs[f].deletedAt}

\* calculateDepth(folderId, depth) over the trashed folders read before the loop
RECURSIVE CalculateDepth(_, _, _, _)
CalculateDepth(fs, trashed, folderId, depth) ==
  IF folderId \notin trashed \/ fs[folderId].parentId = NULL THEN depth
  ELSE IF fs[folderId].parentId \notin trashed THEN depth
  ELSE CalculateDepth(fs, trashed, fs[folderId].parentId, depth + 1)

\* [...trashedFolders].sort(depth descending): a stable sort of the rows read
SortedFolders(fs, trashed) ==
  LET rows == SeqOfSet(trashed)
      AtDepth(d) == SelectSeq(rows, LAMBDA f : CalculateDepth(fs, trashed, f, 0) = d)
      RECURSIVE From(_)
      From(d) == IF d < 0 THEN << >> ELSE AtDepth(d) \o From(d - 1)
  IN From(Cardinality(trashed))

EmptyTrash(u) ==
  LET trashedAssets  == TrashedAssets(userAssets, u)
      trashedFolders == TrashedFolders(folders, u)
      st1 == PurgeEach(BeginTx(files, userAssets, folders, blobs),
                       userAssets, files, SeqOfSet(trashedAssets))
      st  == DeleteFolderRows(st1, SortedFolders(folders, trashedFolders))
  IN /\ UNCHANGED <<rateVars, procs, presigned, declared, nextFolderId>>
     /\ IF trashedAssets = {} /\ trashedFolders = {}
          THEN /\ UNCHANGED <<files, blobs, userAssets, folders, userQuotas>>
               /\ last' = Done("emptyTrash", u, NULL, NULL, "none", 0, "OK")
          ELSE /\ ApplyTx(st)
               /\ IF st.ok
                    THEN /\ userQuotas' = UpdateStorageUsage(userQuotas, u, -st.freed)
                         /\ last' = Done("emptyTrash", u, NULL, NULL, "none", st.freed, "OK")
                    ELSE /\ UNCHANGED userQuotas
                         /\ last' = Done("emptyTrash", u, NULL, NULL, "none", 0,
                                         "INTERNAL_SERVER_ERROR")

\* deleteFolder: the folder must hold no asset and no subfolder (of any user)
DeleteFolder(u, id) ==
  /\ UNCHANGED <<treeFrame, userAssets, nextFolderId>>
  /\ IF ~FindFolder(folders, u, id, "any")
       THEN /\ UNCHANGED folders
            /\ last' = Done("deleteFolder", u, id, NULL, "none", 0, "NOT_FOUND")
       ELSE IF \/ \E a \in DOMAIN userAssets : userAssets[a].folderId = id
               \/ \E f \in DOMAIN folders : folders[f].parentId = id
         THEN /\ UNCHANGED folders
              /\ last' = Done("deleteFolder", u, id, NULL, "none", 0, "PRECONDITION_FAILED")
         ELSE /\ folders' = Delete(folders, {id})
              /\ last' = Done("deleteFolder", u, id, NULL, "none", 0, "OK")

---------------------------------------------------------------------------
(* Specification of non-overlapping requests: every handler runs to completion. *)

NoProcs == [p \in {} |-> NoRequest]

NoLog == [ticks |-> 0, requests |-> 0,
          byUser |-> [u \in Users |-> [window |-> 0, requests |-> 0, admitted |-> 0]]]

NoTraffic ==
  /\ folders = EmptyTable
  /\ rateLimitWindows = EmptyTable
  /\ nextWindowId = 1
  /\ now = 0
  /\ reqLog = NoLog
  /\ nextFolderId = 1
  /\ last = NoRequest

EmptyDb ==
  /\ files = EmptyTable
  /\ blobs = {}
  /\ presigned = {}
  /\ userAssets = EmptyTable
  /\ declared = EmptyTable
  /\ NoTraffic

Init == EmptyDb /\ userQuotas = EmptyTable /\ procs = NoProcs

\* Every handler below is guarded by the model's bound on the rows ever inserted.
Ledger ==
  \/ \E u \in Users, h \in Hashes, s \in Sizes :
       /\ NextAssetId <= MaxAssets
       /\ \/ GetUploadPresignedUrl(u, h, s, NULL)
          \/ ConfirmUpload(u, h, s, NULL)
  \/ \E h \in Hashes : ClientPut(h)
  \/ \E u \in Users, id \in AssetIds :
       \/ DeleteAsset(u, id)
       \/ PermanentlyDelete(u, id)
       \/ MoveToTrash(u, id)
       \/ RestoreFromTrash(u, id)

Next == Ledger

Spec == Init /\ [][Next]_vars

---------------------------------------------------------------------------
(* Specification of the folder hierarchy: non-overlapping requests on the   *)
(* tree of one owner (u1 creates the folders; both users call the handlers). *)

MaxTreeAssets == 1

FolderArgs == {NULL} \cup FolderIds

TreeUpload ==
  \E f \in FolderArgs :
    /\ NextAssetId <= MaxTreeAssets
    /\ \E u \in Users :
         \/ GetUploadPresignedUrl(u, "h1", 1, f)
         \/ ConfirmUpload(u, "h1", 1, f)

TreeAssets ==
  \E u \in Users, id \in 1..MaxTreeAssets :
    \/ MoveToTrash(u, id)
    \/ RestoreFromTrash(u, id)
    \/ DeleteAsset(u, id)
    \/ PermanentlyDelete(u, id)

TreeFolders ==
  \E u \in Users, id \in FolderIds :
    \/ \E parentId \in FolderArgs :
         nextFolderId <= MaxFolders /\ CreateFolder("u1", parentId)
    \/ \E parentId \in FolderArgs : MoveFolder(u, id, parentId)
    \/ MoveFolderToTrash(u, id)
    \/ RestoreFolderFromTrash(u, id)

NextTree ==
  \/ TreeUpload
  \/ ClientPut("h1")
  \/ TreeAssets
  \/ TreeFolders

SpecTree == Init /\ [][NextTree]_vars

---------------------------------------------------------------------------
(* Overlapping requests.  A worker runs one handler; each await of the handler *)
(* that touches the database or the bucket is a step, and db.transaction is    *)
(* one step: its statements take row locks that are held to the commit, so     *)
(* transactions on the same rows run one after the other.  The bucket is not   *)
(* part of the transaction.                                                    *)

IdleWorker ==
  [pc |-> "idle", op |-> "none", user |-> "none", id |-> NULL, hash |-> "none",
   size |-> 0, delta |-> 0, res |-> "none", s3del |-> 0, rowdel |-> 0, minRc |-> 1,
   share |-> NULL, seen |-> 0, target |-> NULL, windowStart |-> 0]

concFrame == <<rateVars, nextFolderId, last>>

Finished(w, res) == [w EXCEPT !.pc = "done", !.res = res]

\* A request arrives: the handler is at its first await.
StartPurge(p, op, u, id) ==
  /\ procs[p].pc = "idle"
  /\ op \in {"deleteAsset", "permanentlyDelete"}
  /\ procs' = [procs EXCEPT ![p] = [IdleWorker EXCEPT !.pc = "find", !.op = op,
                                                      !.user = u, !.id = id]]
  /\ UNCHANGED <<files, blobs, presigned, userAssets, folders, userQuotas, declared,
                 concFrame>>

StartUpload(p, op, u, h, s) ==
  /\ procs[p].pc = "idle"
  /\ op \in {"getUploadPresignedUrl", "confirmUpload"}
  /\ procs' = [procs EXCEPT ![p] =
                 [IdleWorker EXCEPT !.pc = IF op = "confirmUpload" THEN "exists" ELSE "quota",
                                    !.op = op, !.user = u, !.hash = h, !.size = s]]
  /\ UNCHANGED <<files, blobs, presigned, userAssets, folders, userQuotas, declared,
                 concFrame>>

\* deleteAsset / permanentlyDelete: findFirst(userAssets ...) with: { file: true }
PurgeFind(p) ==
  LET w == procs[p]
  IN /\ w.pc = "find"
     /\ procs' = [procs EXCEPT ![p] =
          IF FindAsset(userAssets, w.user, w.id, w.op = "permanentlyDelete")
            THEN [w EXCEPT !.pc = "purge",
                           !.hash = userAssets[w.id].fileHash,
                           !.size = files[userAssets[w.id].fileHash].size]
            ELSE Finished(w, "NOT_FOUND")]
     /\ UNCHANGED <<files, blobs, presigned, userAssets, folders, userQuotas, declared,
                    concFrame>>

\* deleteAsset / permanentlyDelete: the transaction
PurgeCommit(p) ==
  LET w  == procs[p]
      st == PurgeOne(BeginTx(files, userAssets, folders, blobs), w.id, w.hash, w.size)
  IN /\ w.pc = "purge"
     /\ ApplyTx(st)
     /\ procs' = [procs EXCEPT ![p] =
          [(IF st.ok THEN [w EXCEPT !.pc = "usage", !.delta = -w.size]
                     ELSE Finished(w, "INTERNAL_SERVER_ERROR"))
             EXCEPT !.s3del = st.s3del, !.rowdel = st.rowdel, !.minRc = st.minRc]]
     /\ UNCHANGED <<presigned, userQuotas, declared, concFrame>>

\* updateStorageUsage(userId, +size | -fileSize), after the transaction
UsageStep(p) ==
  LET w == procs[p]
  IN /\ w.pc = "usage"
     /\ userQuotas' = UpdateStorageUsage(userQuotas, w.user, w.delta)
     /\ procs' = [procs EXCEPT ![p] = Finished(w, "OK")]
     /\ UNCHANGED <<files, blobs, presigned, userAssets, folders, declared, concFrame>>

\* confirmUpload: s3.file(hash).exists()
ConfirmExists(p) ==
  LET w == procs[p]
  IN /\ w.pc = "exists"
     /\ procs' = [procs EXCEPT ![p] =
          IF w.hash \in blobs THEN [w EXCEPT !.pc = "confirm"]
          ELSE Finished(w, "NOT_FOUND")]
     /\ UNCHANGED <<files, blobs, presigned, userAssets, folders, userQuotas, declared,
                    concFrame>>

\* confirmUpload: the transaction
ConfirmCommit(p) ==
  LET w  == procs[p]
      id == NextAssetId
      st == ConfirmTx(BeginTx(files, userAssets, folders, blobs), id, w.user, w.hash,
                      w.size, NULL)
  IN /\ w.pc = "confirm"
     /\ ApplyTx(st)
     /\ declared' = IF st.ok THEN Insert(declared, id, w.size) ELSE declared
     /\ procs' = [procs EXCEPT ![p] =
          IF st.ok THEN [w EXCEPT !.pc = "usage", !.id = id, !.delta = w.size]
          ELSE Finished(w, "INTERNAL_SERVER_ERROR")]
     /\ UNCHANGED <<presigned, userQuotas, concFrame>>

\* getUploadPresignedUrl: checkStorageQuota
QuotaStep(p) ==
  LET w == procs[p]
      q == CheckStorageQuota(userQuotas, w.user, w.size)
  IN /\ w.pc = "quota"
     /\ userQuotas' = q.quotas
     /\ procs' = [procs EXCEPT ![p] =
          IF q.ok THEN [w EXCEPT !.pc = "lookup"] ELSE Finished(w, "PAYLOAD_TOO_LARGE")]
     /\ UNCHANGED <<files, blobs, presigned, userAssets, folders, declared, concFrame>>

\* getUploadPresignedUrl: findFirst(files, hash); without a row the url is presigned
LookupStep(p) ==
  LET w == procs[p]
  IN /\ w.pc = "lookup"
     /\ IF w.hash \in DOMAIN files
          THEN /\ procs' = [procs EXCEPT ![p] = [w EXCEPT !.pc = "link"]]
               /\ UNCHANGED presigned
          ELSE /\ procs' = [procs EXCEPT ![p] = Finished(w, "PRESIGNED")]
               /\ presigned' = presigned \cup {w.hash}
     /\ UNCHANGED <<files, blobs, userAssets, folders, userQuotas, declared, concFrame>>

\* getUploadPresignedUrl: the transaction of the deduplicated branch
LinkCommit(p) ==
  LET w  == procs[p]
      id == NextAssetId
      st == LinkTx(BeginTx(files, userAssets, folders, blobs), id, w.user, w.hash, NULL)
  IN /\ w.pc = "link"
     /\ ApplyTx(st)
     /\ declared' = IF st.ok THEN Insert(declared, id, w.size) ELSE declared
     /\ procs' = [procs EXCEPT ![p] =
          IF st.ok THEN [w EXCEPT !.pc = "usage", !.id = id, !.delta = w.size]
          ELSE Finished(w, "INTERNAL_SERVER_ERROR")]
     /\ UNCHANGED <<presigned, userQuotas, concFrame>>

\* The response is sent; the worker takes the next request.
Respond(p) ==
  /\ procs[p].pc = "done"
  /\ procs' = [procs EXCEPT ![p] = IdleWorker]
  /\ UNCHANGED <<files, blobs, presigned, userAssets, folders, userQuotas, declared,
                 concFrame>>

\* The client's PUT, while handlers run
ConcurrentPut(h) ==
  /\ h \in presigned
  /\ h \notin blobs
  /\ blobs' = blobs \cup {h}
  /\ UNCHANGED <<files, presigned, userAssets, folders, userQuotas, declared, concFrame,
                 procs>>

Quiescent == \A p \in DOMAIN procs : procs[p].pc \in {"idle", "done"}

---------------------------------------------------------------------------
(* Specification of overlapping uploads and purges of one content (hash h1, *)
(* one unit long) on an empty database.                                     *)

Workers == 1..MaxWorkers

InFlightUploads ==
  Cardinality({p \in DOMAIN procs : procs[p].pc \in {"exists", "confirm", "quota",
                                                      "lookup", "link"}})

InitStore == EmptyDb /\ userQuotas = EmptyTable /\ procs = [p \in Workers |-> IdleWorker]

StoreRequests ==
  \E p \in Workers :
    \/ \E op \in {"getUploadPresignedUrl", "confirmUpload"}, u \in Users :
         /\ NextAssetId + InFlightUploads <= MaxAssets
         /\ StartUpload(p, op, u, "h1", 1)
    \/ \E op \in {"deleteAsset", "permanentlyDelete"}, u \in Users, id \in AssetIds :
         StartPurge(p, op, u, id)

StoreSteps ==
  \E p \in Workers :
    \/ QuotaStep(p)
    \/ LookupStep(p)
    \/ LinkCommit(p)
    \/ ConfirmExists(p)
    \/ ConfirmCommit(p)
    \/ PurgeFind(p)
    \/ PurgeCommit(p)
    \/ UsageStep(p)
    \/ Respond(p)

NextStore ==
  \/ StoreRequests
  \/ StoreSteps
  \/ ConcurrentPut("h1")

SpecStore == InitStore /\ [][NextStore]_vars

---------------------------------------------------------------------------
(* Specification of N purges, one per asset, of N assets that share a hash. *)
(* The initial state is the database after N uploads of the same content,   *)
(* some of the assets moved to trash; nothing else runs.                    *)

SharedAssets(owner, trashed) ==
  [id \in DOMAIN owner |->
     [NewAsset(owner[id], NULL, "h1") EXCEPT !.deletedAt = trashed[id]]]

OwnersQuotas(owner) ==
  [u \in Range(owner) |->
     DefaultQuota(Cardinality({id \in DOMAIN owner : owner[id] = u}))]

InitPurge ==
  \E n \in 1..MaxPurgers :
    \E owner \in [1..n -> Users], trashed \in [1..n -> BOOLEAN] :
      /\ files = Insert(EmptyTable, "h1", [size |-> 1, refCount |-> n])
      /\ blobs = {"h1"}
      /\ presigned = {"h1"}
      /\ userAssets = SharedAssets(owner, trashed)
      /\ declared = [id \in 1..n |-> 1]
      /\ userQuotas = OwnersQuotas(owner)
      /\ procs = [p \in 1..n |-> IdleWorker]
      /\ NoTraffic

\* Worker p purges asset p, on behalf of the asset's owner.
NextPurge ==
  \E p \in DOMAIN procs :
    \/ \E op \in {"deleteAsset", "permanentlyDelete"} :
         /\ p \in DOMAIN userAssets
         /\ StartPurge(p, op, userAssets[p].userId, p)
    \/ PurgeFind(p)
    \/ PurgeCommit(p)
    \/ UsageStep(p)

SpecPurge == InitPurge /\ [][NextPurge]_vars

---------------------------------------------------------------------------
(* Specification of overlapping confirmUpload calls for hashes without a    *)
(* files row.  The initial state is the database after both users obtained  *)
(* presigned urls for both hashes; each worker confirms once.               *)

InitConfirm ==
  /\ files = EmptyTable
  /\ blobs = {}
  /\ presigned = Hashes
  /\ userAssets = EmptyTable
  /\ declared = EmptyTable
  /\ userQuotas = [u \in Users |-> DefaultQuota(0)]
  /\ procs = [p \in Workers |-> IdleWorker]
  /\ NoTraffic

NextConfirm ==
  \/ \E p \in Workers, u \in Users, h \in Hashes, s \in Sizes :
       StartUpload(p, "confirmUpload", u, h, s)
  \/ \E p \in Workers :
       \/ ConfirmExists(p)
       \/ ConfirmCommit(p)
       \/ UsageStep(p)
  \/ \E h \in Hashes : ConcurrentPut(h)

SpecConfirm == InitConfirm /\ [][NextConfirm]_vars

---------------------------------------------------------------------------
(* Public sharing.  togglePublic is one UPDATE; getPublicFile is a lookup and  *)
(* an UPDATE, and other requests run between the two.  The specification      *)
(* starts from the database after u1 and u2 each uploaded the same content.   *)

ShareIds == 1..MaxShares

\* togglePublic: crypto.randomUUID() is some id no row carries
TogglePublic(u, id, isPublic) ==
  /\ UNCHANGED <<files, blobs, presigned, folders, userQuotas, rateVars, declared, procs,
                 nextFolderId>>
  /\ IF id \in DOMAIN userAssets /\ userAssets[id].userId = u
       THEN /\ \E sid \in ShareIds :
                 /\ \A a \in DOMAIN userAssets : userAssets[a].publicShareId # sid
                 /\ userAssets' = [userAssets EXCEPT
                      ![id].isPublic = isPublic,
                      ![id].publicShareId = IF isPublic THEN sid ELSE NULL]
            /\ last' = Done("togglePublic", u, id, NULL, "none", 0, "OK")
       ELSE /\ UNCHANGED userAssets
            /\ last' = Done("togglePublic", u, id, NULL, "none", 0, "NOT_FOUND")

\* getPublicFile: findFirst(userAssets where publicShareId = shareId and isPublic)
SharedAs(ua, shareId) ==
  {a \in DOMAIN ua : ua[a].publicShareId = shareId /\ ua[a].isPublic}

\* Mutant of the counter update: writes the count read by the lookup, plus one
IncrementDownloadsStale(ua, id, seen) ==
  IF id \in DOMAIN ua THEN [ua EXCEPT ![id].downloadCount = seen + 1] ELSE ua

\* getPublicFile: UPDATE user_assets SET download_count = download_count + 1 WHERE id
IncrementDownloads(ua, id, seen) ==
  IF id \in DOMAIN ua THEN [ua EXCEPT ![id].downloadCount = @ + 1] ELSE ua

StartRead(p, shareId) ==
  /\ procs[p].pc = "idle"
  /\ procs' = [procs EXCEPT ![p] = [IdleWorker EXCEPT !.pc = "share", !.op = "getPublicFile",
                                                      !.share = shareId]]
  /\ UNCHANGED <<files, blobs, presigned, userAssets, folders, userQuotas, declared,
                 concFrame>>

ReadFind(p) ==
  LET w     == procs[p]
      found == SharedAs(userAssets, w.share)
  IN /\ w.pc = "share"
     /\ procs' = [procs EXCEPT ![p] =
          IF found = {} THEN Finished(w, "NOT_FOUND")
          ELSE LET a == CHOOSE a \in found : TRUE
               IN [w EXCEPT !.pc = "count", !.id = a, !.seen = userAssets[a].downloadCount]]
     /\ UNCHANGED <<files, blobs, presigned, userAssets, folders, userQuotas, declared,
                    concFrame>>

ReadCount(p) ==
  LET w == procs[p]
  IN /\ w.pc = "count"
     /\ userAssets' = IncrementDownloads(userAssets, w.id, w.seen)
     /\ procs' = [procs EXCEPT ![p] = Finished(w, "OK")]
     /\ UNCHANGED <<files, blobs, presigned, folders, userQuotas, declared, concFrame>>

InitShare ==
  /\ files = Insert(EmptyTable, "h1", [size |-> 1, refCount |-> 2])
  /\ blobs = {"h1"}
  /\ presigned = {"h1"}
  /\ userAssets = [id \in 1..2 |-> NewAsset(IF id = 1 THEN "u1" ELSE "u2", NULL, "h1")]
  /\ declared = [id \in 1..2 |-> 1]
  /\ userQuotas = [u \in Users |-> DefaultQuota(1)]
  /\ procs = [p \in 1..MaxReaders |-> IdleWorker]
  /\ NoTraffic

NextShare ==
  \/ \E u \in Users, id \in 1..2, isPublic \in BOOLEAN : TogglePublic(u, id, isPublic)
  \/ \E u \in Users, id \in 1..2 : DeleteAsset(u, id)
  \/ \E p \in DOMAIN procs :
       \/ \E shareId \in ShareIds : StartRead(p, shareId)
       \/ ReadFind(p)
       \/ ReadCount(p)

SpecShare == InitShare /\ [][NextShare]_vars

Reads(a) ==
  {p \in DOMAIN procs : /\ procs[p].op = "getPublicFile" /\ procs[p].id = a
                        /\ procs[p].pc = "done" /\ procs[p].res = "OK"}

\* C17: getPublicFile goes on to count and succeed only for an asset that carries
\* the share id with isPublic true at the lookup; a read that fails changes no
\* row; and the downloadCount of every asset is the number of reads of it that
\* succeeded, however the reads overlap.
C17_PublicRead ==
  [][/\ \A p \in DOMAIN procs :
          /\ (procs[p].pc = "share" /\ procs'[p].pc = "count") =>
                /\ procs'[p].id \in DOMAIN userAssets
                /\ userAssets[procs'[p].id].publicShareId = procs[p].share
                /\ userAssets[procs'[p].id].isPublic
          /\ (procs[p].pc = "share" /\ procs'[p].pc = "done") =>
                /\ procs'[p].res = "NOT_FOUND"
                /\ SharedAs(userAssets, procs[p].share) = {}
                /\ userAssets' = userAssets
     /\ Quiescent' =>
          \A a \in DOMAIN userAssets' :
            userAssets'[a].downloadCount = Cardinality(Reads(a)')]_vars

\* Reads of one asset that overlapped: one has been counted while two others, which
\* looked the asset up before that, are about to be.
C17_Witness ==
  \E a \in DOMAIN userAssets, p, q \in DOMAIN procs :
    /\ p # q
    /\ procs[p].pc = "count" /\ procs[p].id = a /\ procs[p].seen = 0
    /\ procs[q].pc = "count" /\ procs[q].id = a /\ procs[q].seen = 0
    /\ Cardinality(Reads(a)) = 1
    /\ userAssets[a].downloadCount = 1

---------------------------------------------------------------------------
(* Overlapping moveFolder calls.  The handler's lookups and its UPDATE are     *)
(* separate statements outside any transaction: the checks are one step, the    *)
(* UPDATE another.                                                              *)

StartMove(p, u, id, parentId) ==
  /\ procs[p].pc = "idle"
  /\ procs' = [procs EXCEPT ![p] = [IdleWorker EXCEPT !.pc = "check", !.op = "moveFolder",
                                      !.user = u, !.id = id, !.target = parentId]]
  /\ UNCHANGED <<files, blobs, presigned, userAssets, folders, userQuotas, declared,
                 concFrame>>

\* moveFolder: the lookups and the circular-reference check (a walk that never
\* returns leaves the worker walking)
MoveCheck(p) ==
  LET w   == procs[p]
      res == MoveFolderCheck(folders, w.user, w.id, w.target)
  IN /\ w.pc = "check"
     /\ procs' = [procs EXCEPT ![p] =
          IF res = "OK" THEN [w EXCEPT !.pc = "update"]
          ELSE IF res = "NO_RESPONSE" THEN [w EXCEPT !.pc = "walking"]
          ELSE Finished(w, res)]
     /\ UNCHANGED <<files, blobs, presigned, userAssets, folders, userQuotas, declared,
                    concFrame>>

\* moveFolder: UPDATE folders SET parent_id WHERE id
MoveUpdate(p) ==
  LET w == procs[p]
  IN /\ w.pc = "update"
     /\ folders' = IF w.id \in DOMAIN folders
                     THEN [folders EXCEPT ![w.id].parentId = w.target] ELSE folders
     /\ procs' = [procs EXCEPT ![p] = Finished(w, "OK")]
     /\ UNCHANGED <<files, blobs, presigned, userAssets, userQuotas, declared, concFrame>>

InitMove == EmptyDb /\ userQuotas = EmptyTable /\ procs = [p \in Workers |-> IdleWorker]

NextMove ==
  \/ \E parentId \in FolderArgs :
       nextFolderId <= MaxFolders /\ CreateFolder("u1", parentId)
  \/ \E p \in Workers :
       \/ \E id \in FolderIds, parentId \in FolderArgs : StartMove(p, "u1", id, parentId)
       \/ MoveCheck(p)
       \/ MoveUpdate(p)
       \/ Respond(p)

SpecMove == InitMove /\ [][NextMove]_vars

---------------------------------------------------------------------------
(* Properties of overlapping requests *)

References(h) == {a \in DOMAIN userAssets : userAssets[a].fileHash = h}

\* C1: between operations, every files row has refCount equal to the number of
\* user_assets rows, active or trashed, whose fileHash is its hash.
C1_DedupInvariant ==
  Quiescent =>
    \A h \in DOMAIN files : files[h].refCount = Cardinality(References(h))

\* C13: a purge deletes a blob only together with the committed deletion of the
\* files row of that hash: no purge has deleted a blob in a transaction that did
\* not delete the row or did not commit.
C13_ReleaseOrdering ==
  \A p \in DOMAIN procs :
    procs[p].s3del > 0 =>
      procs[p].rowdel > 0 /\ procs[p].res # "INTERNAL_SERVER_ERROR"

BlobDeletions == SumOver([p \in DOMAIN procs |-> procs[p].s3del], DOMAIN procs)

RowDeletions == SumOver([p \in DOMAIN procs |-> procs[p].rowdel], DOMAIN procs)

AllPurged == \A p \in DOMAIN procs : procs[p].pc = "done" /\ procs[p].res = "OK"

\* C3: N purges, one per asset, of N assets sharing a files row with refCount N,
\* in any interleaving: the blob is never deleted twice, the files row is never
\* deleted twice, no purge reads a refCount below zero, and when the N purges have
\* succeeded the blob and the files row have each been deleted exactly once.
C3_NoDoubleFree ==
  /\ BlobDeletions <= 1
  /\ RowDeletions <= 1
  /\ \A p \in DOMAIN procs : procs[p].minRc >= 0
  /\ AllPurged => /\ BlobDeletions = 1
                  /\ RowDeletions = 1
                  /\ "h1" \notin blobs
                  /\ "h1" \notin DOMAIN files

\* Three purges in flight at once, all committed, the last one having freed the blob.
C3_Witness ==
  /\ Cardinality(DOMAIN procs) >= 2
  /\ \A p \in DOMAIN procs : procs[p].pc = "usage"
  /\ \E p \in DOMAIN procs : procs[p].op = "permanentlyDelete"
  /\ \E p \in DOMAIN procs : procs[p].op = "deleteAsset"
  /\ BlobDeletions = 1
  /\ RowDeletions = 1

Confirmed(h) ==
  {p \in DOMAIN procs : /\ procs[p].op = "confirmUpload"
                        /\ procs[p].hash = h
                        /\ procs[p].pc = "done"
                        /\ procs[p].res = "OK"}

\* C10: when the overlapping confirmUpload calls for hashes that had no files row
\* have returned, a hash confirmed by two calls has one files row with refCount 2
\* and two user_assets rows (in general: as many as calls that succeeded), and a
\* hash confirmed by no call has no row.
C10_ConcurrentFirstUploads ==
  Quiescent =>
    \A h \in Hashes :
      LET k == Cardinality(Confirmed(h))
      IN IF k = 0 THEN h \notin DOMAIN files /\ References(h) = {}
         ELSE /\ h \in DOMAIN files
              /\ files[h].refCount = k
              /\ Cardinality(References(h)) = k

\* Two calls for the same hash in flight at once, both committed.
C10_Witness ==
  \E p, q \in DOMAIN procs :
    /\ p # q
    /\ procs[p].pc = "usage" /\ procs[q].pc = "usage"
    /\ procs[p].op = "confirmUpload" /\ procs[q].op = "confirmUpload"
    /\ procs[p].hash = procs[q].hash
    /\ files[procs[p].hash].refCount = 2
    /\ Cardinality(References(procs[p].hash)) = 2

---------------------------------------------------------------------------
(* Properties of the folder hierarchy (SpecTree) *)

\* The folders of S and all their transitive descendants, in any state
RECURSIVE Closure(_, _)
Closure(fs, S) ==
  LET T == S \cup {c \in DOMAIN fs : fs[c].parentId \in S}
  IN IF T = S THEN S ELSE Closure(fs, T)

Subtree(fs, id) == Closure(fs, {id})

CycleArgs(fs, id, parentId) == parentId = id \/ parentId \in Subtree(fs, id)

\* C4 as stated: moveFolder(id, parentId) with parentId = id or parentId a transitive
\* descendant of id always fails with BAD_REQUEST and leaves every parentId unchanged.
\* (Read for folders that exist and belong to the caller.)
C4_CycleRejectedBadRequest ==
  [][(/\ last'.op = "moveFolder"
      /\ FindFolder(folders, last'.user, last'.id, "any")
      /\ FindFolder(folders, last'.user, last'.target, "any")
      /\ CycleArgs(folders, last'.id, last'.target))
       => (last'.result = "BAD_REQUEST" /\ folders' = folders)]_vars

\* C4 amended: such a call always fails and changes no folder; the error is
\* BAD_REQUEST exactly when id is an active folder of the caller and parentId is id
\* or an active folder of the caller, and NOT_FOUND otherwise.
C4_CycleRejected ==
  [][(last'.op = "moveFolder" /\ CycleArgs(folders, last'.id, last'.target))
       => /\ folders' = folders
          /\ last'.result \in {"BAD_REQUEST", "NOT_FOUND"}
          /\ last'.result = "BAD_REQUEST" <=>
               /\ FindFolder(folders, last'.user, last'.id, "active")
               /\ \/ last'.target = last'.id
                  \/ FindFolder(folders, last'.user, last'.target, "active")]_vars

\* C4 witness: a move under a descendant two levels down was rejected
C4_Witness ==
  /\ last.op = "moveFolder"
  /\ last.result = "BAD_REQUEST"
  /\ last.target \in Subtree(folders, last.id) \ {last.id}
  /\ folders[last.target].parentId # last.id

\* C7: after moveFolderToTrash(F) succeeds, F, every transitive descendant folder of F
\* owned by the user and every asset of the user located in them is trashed.
C7_CascadeTrashComplete ==
  (last.op = "moveFolderToTrash" /\ last.result = "OK") =>
     /\ \A f \in Subtree(folders, last.id) :
          folders[f].userId = last.user => folders[f].deletedAt
     /\ \A a \in DOMAIN userAssets :
          (userAssets[a].userId = last.user
             /\ userAssets[a].folderId \in Subtree(folders, last.id))
          => userAssets[a].deletedAt

\* C8: after restoreFolderFromTrash(F) succeeds, F, every transitive descendant folder
\* of F and every asset located in any of them is active again.
C8_CascadeRestoreComplete ==
  (last.op = "restoreFolderFromTrash" /\ last.result = "OK") =>
     /\ \A f \in Subtree(folders, last.id) : ~folders[f].deletedAt
     /\ \A a \in DOMAIN userAssets :
          userAssets[a].folderId \in Subtree(folders, last.id)
          => ~userAssets[a].deletedAt

TrashedParent(fs, u, id) ==
  /\ FindFolder(fs, u, id, "trashed")
  /\ fs[id].parentId \in DOMAIN fs
  /\ fs[fs[id].parentId].deletedAt

\* C9: restoreFolderFromTrash(F) on a trashed folder whose immediate parent is trashed
\* fails with PRECONDITION_FAILED and changes no folder, asset, files or quota row.
C9_RestoreUnderTrashedParent ==
  [][(last'.op = "restoreFolderFromTrash" /\ TrashedParent(folders, last'.user, last'.id))
       => /\ last'.result = "PRECONDITION_FAILED"
          /\ UNCHANGED <<folders, userAssets, files, userQuotas>>]_vars

C9_Witness ==
  /\ last.op = "restoreFolderFromTrash"
  /\ last.result = "PRECONDITION_FAILED"
  /\ TrashedParent(folders, last.user, last.id)

---------------------------------------------------------------------------
(* Properties of the ledger (Spec) *)

QuotaUsed(quotas, u) == IF u \in DOMAIN quotas THEN quotas[u].storageUsed ELSE 0

QuotaLimit(quotas, u) ==
  IF u \in DOMAIN quotas THEN quotas[u].storageLimit ELSE DEFAULT_STORAGE_LIMIT

StorageUsed(u) == QuotaUsed(userQuotas, u)

StorageLimit(u) == QuotaLimit(userQuotas, u)

AssetsOf(u) == {a \in DOMAIN userAssets : userAssets[a].userId = u}

\* C2: between requests, every user's storageUsed is the sum of the sizes declared by
\* the uploads that created the user's existing (active or trashed) assets.
C2_Conservation ==
  \A u \in Users : StorageUsed(u) = SumOver(declared, AssetsOf(u))

\* C6: a request that charges bytes (getUploadPresignedUrl, confirmUpload) fails with
\* PAYLOAD_TOO_LARGE, creating no asset and charging nothing, whenever
\* storageUsed + size > storageLimit, and is not refused for quota otherwise.
C6_QuotaGate ==
  [][last'.op \in {"getUploadPresignedUrl", "confirmUpload"} =>
       IF QuotaUsed(userQuotas, last'.user) + last'.size > QuotaLimit(userQuotas, last'.user)
         THEN /\ last'.result = "PAYLOAD_TOO_LARGE"
              /\ userAssets' = userAssets
              /\ QuotaUsed(userQuotas', last'.user) = QuotaUsed(userQuotas, last'.user)
         ELSE last'.result # "PAYLOAD_TOO_LARGE"]_vars

---------------------------------------------------------------------------
(* Specification of the rate limiter: requests of rateLimitedProcedure that do *)
(* not overlap, and the clock.  user_quotas.rateLimit is set by the operator   *)
(* (no handler writes it): Init draws it per user.                             *)

TickSteps == {500, RATE_LIMIT_WINDOW_MS, WINDOW_RETENTION_MS}

\* The history of the user's latest window after one more request
Logged(log, u, windowStart, ok) ==
  LET old == log.byUser[u]
      cur == IF old.requests > 0 /\ old.window = windowStart
               THEN old ELSE [window |-> windowStart, requests |-> 0, admitted |-> 0]
  IN [log EXCEPT !.requests = @ + 1,
                 !.byUser[u] = [cur EXCEPT !.requests = @ + 1,
                                           !.admitted = @ + (IF ok THEN 1 ELSE 0)]]

rateFrame == <<files, blobs, presigned, userAssets, folders, userQuotas, declared,
               nextFolderId, procs>>

\* rateLimitedProcedure: checkRateLimit(userId), then next()
RateLimitedRequest(u) ==
  LET windowStart == WindowStart(now)
      rateLimit   == RateLimitOf(userQuotas, u)
      current     == CurrentWindows(rateLimitWindows, u, windowStart)
  IN /\ UNCHANGED <<rateFrame, now>>
     /\ IF current = {}
          THEN /\ rateLimitWindows' =
                    InsertWindow(rateLimitWindows, nextWindowId, u, windowStart, now)
               /\ nextWindowId' = nextWindowId + 1
               /\ reqLog' = Logged(reqLog, u, windowStart, TRUE)
               /\ last' = Done("request", u, NULL, NULL, "none", 0, "OK")
          ELSE \E w \in current :
                 IF Exceeded(rateLimitWindows[w], rateLimit)
                   THEN /\ UNCHANGED <<rateLimitWindows, nextWindowId>>
                        /\ reqLog' = Logged(reqLog, u, windowStart, FALSE)
                        /\ last' = Done("request", u, NULL, NULL, "none", 0,
                                        "TOO_MANY_REQUESTS")
                   ELSE /\ rateLimitWindows' = IncrementWindow(rateLimitWindows, w)
                        /\ UNCHANGED nextWindowId
                        /\ reqLog' = Logged(reqLog, u, windowStart, TRUE)
                        /\ last' = Done("request", u, NULL, NULL, "none", 0, "OK")

Tick(d) ==
  /\ now' = now + d
  /\ reqLog' = [reqLog EXCEPT !.ticks = @ + 1]
  /\ UNCHANGED <<rateFrame, rateLimitWindows, nextWindowId, last>>

\* cfg[u] = 0: the user has no user_quotas row yet (DEFAULT_RATE_LIMIT applies)
InitRate ==
  /\ EmptyDb
  /\ procs = NoProcs
  /\ \E cfg \in [Users -> 0..MaxRateLimit] :
       userQuotas = [u \in {x \in Users : cfg[x] > 0} |->
                       [storageUsed |-> 0, storageLimit |-> DEFAULT_STORAGE_LIMIT,
                        rateLimit |-> cfg[u]]]

NextRate ==
  \/ \E u \in Users : reqLog.requests < MaxRequests /\ RateLimitedRequest(u)
  \/ \E d \in TickSteps : reqLog.ticks < MaxTicks /\ Tick(d)

SpecRate == InitRate /\ [][NextRate]_vars

---------------------------------------------------------------------------
(* Properties of the rate limiter (SpecRate) *)

\* C5: among a user's requests in one aligned window exactly the first L (the user's
\* rateLimit) are admitted, every later one fails with TOO_MANY_REQUESTS and leaves the
\* window's count alone; the first request of a later window is admitted.  In terms
\* of the history of each user's latest window: admitted = min(requests, L), the
\* window's single row counts the admitted requests, and the request just made was
\* admitted exactly when it is among the first L.
C5_RateLimitBoundary ==
  \A u \in Users :
    LET log == reqLog.byUser[u]
        L   == RateLimitOf(userQuotas, u)
        cur == CurrentWindows(rateLimitWindows, u, log.window)
    IN /\ log.admitted = Min(log.requests, L)
       /\ log.requests > 0 =>
            /\ Cardinality(cur) = 1
            /\ \A w \in cur : rateLimitWindows[w].requestCount = log.admitted
       /\ (last.op = "request" /\ last.user = u) =>
            (last.result = "OK" <=> log.requests <= L)
       /\ (last.op = "request" /\ last.user = u) =>
            (last.result = "TOO_MANY_REQUESTS" <=> log.requests > L)

\* C5 witness: in a later window, a user's request beyond the limit was refused
C5_Witness ==
  /\ last.op = "request"
  /\ last.result = "TOO_MANY_REQUESTS"
  /\ reqLog.byUser[last.user].window > 0
  /\ reqLog.byUser[last.user].requests = RateLimitOf(userQuotas, last.user) + 1
  /\ Cardinality({w \in DOMAIN rateLimitWindows :
                    rateLimitWindows[w].userId = last.user}) > 1

---------------------------------------------------------------------------
(* Properties of single requests on the tree of one owner (SpecTree) *)

UploadOps == {"getUploadPresignedUrl", "confirmUpload"}

AssetState(ua, a) ==
  IF a \in DOMAIN ua THEN (IF ua[a].deletedAt THEN "Trashed" ELSE "Active")
  ELSE IF a \in DOMAIN declared THEN "Purged" ELSE "None"

AssetOps == {"moveToTrash", "restoreFromTrash", "deleteAsset", "permanentlyDelete"}

---------------------------------------------------------------------------
(* Properties of single requests on the ledger (Spec) *)

PurgeOps == {"deleteAsset", "permanentlyDelete"}

\* C12: an upload by a user directly followed by the purge of the asset it created
\* returns the user's storageUsed to its value before the upload (the value before
\* the purge less the size the upload charged).
C12_RoundTrip ==
  [][(/\ last.op \in UploadOps /\ last.result = "OK"
      /\ last'.op \in PurgeOps /\ last'.result = "OK"
      /\ last'.id = last.id /\ last'.user = last.user) =>
       QuotaUsed(userQuotas', last.user) = QuotaUsed(userQuotas, last.user) - last.size]_vars

TrashOps == {"moveToTrash", "restoreFromTrash", "moveFolderToTrash", "restoreFolderFromTrash"}

\* C15: moveToTrash, restoreFromTrash, moveFolderToTrash and restoreFolderFromTrash
\* leave every files row (refCount), every blob and every user's storageUsed
\* unchanged.
C15_TrashNeutral ==
  [][last'.op \in TrashOps =>
       files' = files /\ blobs' = blobs /\ userQuotas' = userQuotas]_vars

\* moveFolderToTrash has trashed a charged asset together with its folder.
C15_Witness ==
  /\ last.op = "moveFolderToTrash"
  /\ last.result = "OK"
  /\ \E a \in DOMAIN userAssets :
       /\ userAssets[a].deletedAt
       /\ userAssets[a].folderId = last.id
       /\ files[userAssets[a].fileHash].refCount >= 1
       /\ StorageUsed(userAssets[a].userId) >= 1

FolderOps == {"createFolder", "moveFolder", "moveFolderToTrash", "restoreFolderFromTrash"}

OthersFolder(fs, u, f) == f \in DOMAIN fs /\ fs[f].userId # u

OthersAsset(ua, u, a) == a \in DOMAIN ua /\ ua[a].userId # u

\* The request names a folder or an asset of another user.
NamesForeign(req, fs, ua) ==
  \/ req.op \in UploadOps /\ OthersFolder(fs, req.user, req.target)
  \/ req.op = "createFolder" /\ OthersFolder(fs, req.user, req.target)
  \/ req.op \in FolderOps \ {"createFolder"}
       /\ (OthersFolder(fs, req.user, req.id) \/ OthersFolder(fs, req.user, req.target))
  \/ req.op \in AssetOps /\ OthersAsset(ua, req.user, req.id)

OwnParents(fs, ua) ==
  /\ \A a \in DOMAIN ua :
       ua[a].folderId \in DOMAIN fs => fs[ua[a].folderId].userId = ua[a].userId
  /\ \A f \in DOMAIN fs :
       fs[f].parentId \in DOMAIN fs => fs[fs[f].parentId].userId = fs[f].userId

\* C16: a request that names a folder or an asset of another user (as target, parent
\* or destination, the folderId of an upload included) fails with NOT_FOUND and
\* changes no row; and in every state the folderId of an asset and the parentId of
\* a folder, when set, refer to a folder of the same user.
C16_CrossUserIsolation ==
  [][/\ NamesForeign(last', folders, userAssets) =>
          /\ last'.result = "NOT_FOUND"
          /\ UNCHANGED <<folders, userAssets, files, blobs>>
     /\ OwnParents(folders', userAssets')]_vars

---------------------------------------------------------------------------
(* Properties of overlapping folder moves (SpecMove) *)

Descendants(fs, f) == Closure(fs, {c \in DOMAIN fs : fs[c].parentId = f})

\* C18: in every state the parentId relation over the folders contains no cycle
\* (no folder is among its own descendants).
C18_Acyclic == \A f \in DOMAIN folders : f \notin Descendants(folders, f)

---------------------------------------------------------------------------
(* Overlapping requests through rateLimitedProcedure.  checkRateLimit reads   *)
(* the window with findFirst and writes it with a separate UPDATE or INSERT;   *)
(* nothing makes (userId, windowStart) unique.  The clock stands still: all    *)
(* requests fall in one window.                                                *)

rateRaceFrame == <<files, blobs, presigned, userAssets, folders, userQuotas, declared,
                   nextFolderId, now, last>>

InFlightRequests == Cardinality({p \in DOMAIN procs : procs[p].pc # "idle"})

\* checkRateLimit: now, windowStart
StartRequest(p, u) ==
  /\ procs[p].pc = "idle"
  /\ procs' = [procs EXCEPT ![p] = [IdleWorker EXCEPT !.pc = "window", !.op = "request",
                                      !.user = u, !.windowStart = WindowStart(now)]]
  /\ UNCHANGED <<rateRaceFrame, rateLimitWindows, nextWindowId, reqLog>>

\* checkRateLimit: rateLimit, findFirst(rateLimitWindows), the limit test
ReadWindow(p) ==
  LET w       == procs[p]
      current == CurrentWindows(rateLimitWindows, w.user, w.windowStart)
  IN /\ w.pc = "window"
     /\ UNCHANGED <<rateRaceFrame, rateLimitWindows, nextWindowId>>
     /\ IF current = {}
          THEN /\ procs' = [procs EXCEPT ![p] = [w EXCEPT !.pc = "write", !.id = NULL]]
               /\ UNCHANGED reqLog
          ELSE \E row \in current :
                 IF Exceeded(rateLimitWindows[row], RateLimitOf(userQuotas, w.user))
                   THEN /\ procs' = [procs EXCEPT ![p] = IdleWorker]
                        /\ reqLog' = Logged(reqLog, w.user, w.windowStart, FALSE)
                   ELSE /\ procs' = [procs EXCEPT ![p] = [w EXCEPT !.pc = "write",
                                                                   !.id = row]]
                        /\ UNCHANGED reqLog

\* checkRateLimit: increment or create the window; the request is admitted
WriteWindow(p) ==
  LET w == procs[p]
  IN /\ w.pc = "write"
     /\ UNCHANGED rateRaceFrame
     /\ IF w.id # NULL
          THEN /\ rateLimitWindows' = IncrementWindow(rateLimitWindows, w.id)
               /\ UNCHANGED nextWindowId
          ELSE /\ rateLimitWindows' =
                    InsertWindow(rateLimitWindows, nextWindowId, w.user, w.windowStart, now)
               /\ nextWindowId' = nextWindowId + 1
     /\ reqLog' = Logged(reqLog, w.user, w.windowStart, TRUE)
     /\ procs' = [procs EXCEPT ![p] = IdleWorker]

InitRateRace == EmptyDb /\ userQuotas = EmptyTable /\ procs = [p \in Workers |-> IdleWorker]

NextRateRace ==
  \E p \in Workers :
    \/ \E u \in Users :
         reqLog.requests + InFlightRequests < MaxRequests /\ StartRequest(p, u)
    \/ ReadWindow(p)
    \/ WriteWindow(p)

SpecRateRace == InitRateRace /\ [][NextRateRace]_vars

\* C19: however the requests of a user overlap, there is at most one
\* rate_limit_windows row for the user and the window, and at most rateLimit
\* requests of the window are admitted.
C19_RateWindowAtomic ==
  \A u \in Users :
    /\ Cardinality(CurrentWindows(rateLimitWindows, u, WindowStart(now))) <= 1
    /\ reqLog.byUser[u].admitted <= RateLimitOf(userQuotas, u)

---------------------------------------------------------------------------
(* Properties of overlapping uploads (SpecStore) *)

\* C20: however the uploads of a user overlap, an upload is charged only while
\* storageUsed + size <= storageLimit, so no user's storageUsed exceeds the
\* storageLimit.
C20_QuotaAtomic == \A u \in Users : StorageUsed(u) <= StorageLimit(u)

\* C21: in every state every files row, and so every asset, refers to a blob that
\* is present in the bucket; the only tolerated inconsistency is a blob without a
\* files row.
C21_MetadataHasBlob ==
  /\ \A h \in DOMAIN files : h \in blobs
  /\ \A a \in DOMAIN userAssets : userAssets[a].fileHash \in blobs

---------------------------------------------------------------------------
(* Specification of permanent removal: non-overlapping requests of u1 on its *)
(* own tree, holding at most one asset.                                      *)

RemovalUpload ==
  \E f \in FolderArgs :
    /\ NextAssetId <= MaxTreeAssets
    /\ \/ GetUploadPresignedUrl("u1", "h1", 1, f)
       \/ ConfirmUpload("u1", "h1", 1, f)

RemovalFolders ==
  \/ \E parentId \in FolderArgs :
       nextFolderId <= MaxFolders /\ CreateFolder("u1", parentId)
  \/ \E id \in FolderIds :
       \/ \E parentId \in FolderArgs : MoveFolder("u1", id, parentId)
       \/ MoveFolderToTrash("u1", id)
       \/ PermanentlyDeleteFolder("u1", id)
       \/ DeleteFolder("u1", id)
  \/ EmptyTrash("u1")

NextRemoval ==
  \/ RemovalUpload
  \/ ClientPut("h1")
  \/ \E id \in 1..MaxTreeAssets : MoveToTrash("u1", id)
  \/ RemovalFolders

SpecRemoval == Init /\ [][NextRemoval]_vars

---------------------------------------------------------------------------
(* Specification of the cascade purge: u1 purges folders of its tree that    *)
(* hold assets of one content, uploaded by both users under both declared    *)
(* sizes.                                                                    *)

MaxCascadeAssets == 2

MaxCascadeFolders == 2

CascadeUpload ==
  \E u \in Users, s \in Sizes, f \in {NULL} \cup 1..MaxCascadeFolders :
    /\ NextAssetId <= MaxCascadeAssets
    /\ \/ GetUploadPresignedUrl(u, "h1", s, f)
       \/ ConfirmUpload(u, "h1", s, f)

CascadeTree ==
  \/ \E parentId \in {NULL} \cup 1..MaxCascadeFolders :
       nextFolderId <= MaxCascadeFolders /\ CreateFolder("u1", parentId)
  \/ \E id \in 1..MaxCascadeFolders :
       \/ MoveFolderToTrash("u1", id)
       \/ PermanentlyDeleteFolder("u1", id)

NextCascade ==
  \/ CascadeUpload
  \/ ClientPut("h1")
  \/ \E id \in 1..MaxCascadeAssets : DeleteAsset("u1", id)
  \/ CascadeTree

SpecCascade == Init /\ [][NextCascade]_vars

---------------------------------------------------------------------------
(* Properties of permanent removal (SpecRemoval, SpecCascade) *)

\* The user's assets located in the subtree of folder id
AssetsUnder(fs, ua, u, id) ==
  {a \in DOMAIN ua : ua[a].userId = u /\ ua[a].folderId \in Subtree(fs, id)}

\* C22: a successful permanentlyDeleteFolder(F) deletes F and every transitive
\* descendant folder, deletes every asset of the caller located in them, releases
\* one reference per deleted asset (row and blob go when the count reaches zero),
\* returns freedBytes equal to the sum of those assets' sizes and lowers the caller's
\* storageUsed by exactly freedBytes.
C22_CascadePurge ==
  [][(last'.op = "permanentlyDeleteFolder" /\ last'.result = "OK") =>
       LET u    == last'.user
           sub  == Subtree(folders, last'.id)
           gone == AssetsUnder(folders, userAssets, u, last'.id)
           released(h) == Cardinality({a \in gone : userAssets[a].fileHash = h})
           sizes == [a \in gone |-> files[userAssets[a].fileHash].size]
       IN /\ DOMAIN folders' = DOMAIN folders \ sub
          /\ DOMAIN userAssets' = DOMAIN userAssets \ gone
          /\ \A h \in DOMAIN files :
               IF files[h].refCount - released(h) <= 0
                 THEN h \notin DOMAIN files' /\ h \notin blobs'
                 ELSE /\ h \in DOMAIN files'
                      /\ files'[h].refCount = files[h].refCount - released(h)
                      /\ (h \in blobs) = (h \in blobs')
          /\ last'.size = SumOver(sizes, gone)
          /\ QuotaUsed(userQuotas', u) = QuotaUsed(userQuotas, u) - last'.size]_vars

\* C29: in every state each folder's parentId is null or the id of an existing
\* folder row; permanent removal never leaves a surviving folder pointing at a
\* removed parent.
C29_NoDanglingParent ==
  \A f \in DOMAIN folders :
    folders[f].parentId = NULL \/ folders[f].parentId \in DOMAIN folders

\* The number of ancestors of folder f
RECURSIVE Depth(_, _)
Depth(fs, f) ==
  IF f \notin DOMAIN fs \/ fs[f].parentId = NULL \/ fs[f].parentId \notin DOMAIN fs THEN 0
  ELSE 1 + Depth(fs, fs[f].parentId)

\* The order in which the request that just completed deleted folder rows
RemovalOrder(fs, req) ==
  IF req.op = "permanentlyDeleteFolder" THEN PurgeOrder(fs, req.user, req.id)
  ELSE SortedFolders(fs, TrashedFolders(fs, req.user))

DeeperFirst(fs, order) ==
  \A i, j \in 1..Len(order) : i < j => Depth(fs, order[i]) >= Depth(fs, order[j])

DescendantsFirst(fs, order) ==
  \A i, j \in 1..Len(order) : i < j => order[j] \notin Descendants(fs, order[i])

\* C23: when permanentlyDeleteFolder or emptyTrash removes folder rows, it deletes
\* them in descending depth order: no folder row is deleted before a folder of the
\* removed set that lies deeper in the hierarchy, and none before one of its own
\* descendants.
C23_DeepestFirst ==
  [][(last'.op \in {"permanentlyDeleteFolder", "emptyTrash"} /\ last'.result = "OK") =>
       LET order == RemovalOrder(folders, last')
       IN DeeperFirst(folders, order) /\ DescendantsFirst(folders, order)]_vars

---------------------------------------------------------------------------
(* Specification of batch moves: non-overlapping requests of both users on  *)
(* the folders and the asset of u1.                                         *)

MaxBatch == 2

MaxBatchFolders == 2

Batches(S) == UNION {[1..n -> S] : n \in 1..MaxBatch}

BatchArgs == {NULL} \cup 1..MaxBatchFolders

BatchSetup ==
  \/ \E parentId \in BatchArgs :
       nextFolderId <= MaxBatchFolders /\ CreateFolder("u1", parentId)
  \/ \E id \in 1..MaxBatchFolders : MoveFolderToTrash("u1", id)
  \/ \E f \in BatchArgs :
       /\ NextAssetId <= MaxTreeAssets
       /\ \/ GetUploadPresignedUrl("u1", "h1", 1, f)
          \/ ConfirmUpload("u1", "h1", 1, f)
  \/ ClientPut("h1")

BatchMoves ==
  \E u \in Users, target \in BatchArgs :
    \/ \E ids \in Batches(1..MaxBatchFolders) : MoveFolders(u, ids, target)
    \/ \E ids \in Batches(1..MaxTreeAssets + 1) : MoveFiles(u, ids, target)
    \/ \E id \in 1..MaxTreeAssets + 1 : MoveFile(u, id, target)

NextBatch == BatchSetup \/ BatchMoves

SpecBatch == Init /\ [][NextBatch]_vars

\* Whether item id of a batch of caller u cannot be moved to target
UnmovableFolder(fs, u, id, target) ==
  \/ id = target
  \/ target \in Descendants(fs, id)
  \/ id \notin DOMAIN fs
  \/ fs[id].userId # u

UnmovableFile(ua, u, id) == id \notin DOMAIN ua \/ ua[id].userId # u

\* C24: a moveFolders or moveFiles call whose batch holds an item that cannot be
\* moved (the target itself, a folder with the target among its descendants, an id
\* the caller does not own) fails with an error and moves nothing.
C24_NoPartialBatch ==
  [][(last'.op \in {"moveFolders", "moveFiles"}) =>
       LET ids == last'.id
           bad == IF last'.op = "moveFolders"
                    THEN \E i \in 1..Len(ids) :
                           UnmovableFolder(folders, last'.user, ids[i], last'.target)
                    ELSE \E i \in 1..Len(ids) :
                           UnmovableFile(userAssets, last'.user, ids[i])
       IN bad => /\ last'.result # "OK"
                 /\ folders' = folders
                 /\ userAssets' = userAssets]_vars

---------------------------------------------------------------------------
(* Specification of overlapping usage adjustments: the database after u1     *)
(* uploaded n assets of one unit (without a quota row when n = 0); every      *)
(* worker then calls updateStorageUsage(u1, delta) once.  The call is one     *)
(* INSERT ... ON CONFLICT DO UPDATE statement, hence one step; seen keeps     *)
(* the storageUsed the statement found.                                      *)

MaxAdjusters == 3

Deltas == (0 - MaxSize)..MaxSize

InitUsage ==
  \E n \in 0..MaxSize :
    /\ files = IF n = 0 THEN EmptyTable
               ELSE Insert(EmptyTable, "h1", [size |-> 1, refCount |-> n])
    /\ blobs = IF n = 0 THEN {} ELSE {"h1"}
    /\ presigned = blobs
    /\ userAssets = [id \in 1..n |-> NewAsset("u1", NULL, "h1")]
    /\ declared = [id \in 1..n |-> 1]
    /\ userQuotas = IF n = 0 THEN EmptyTable ELSE [u \in {"u1"} |-> DefaultQuota(n)]
    /\ procs = [p \in 1..MaxAdjusters |-> IdleWorker]
    /\ NoTraffic

StartAdjust(p, u, deltaBytes) ==
  /\ procs[p].pc = "idle"
  /\ procs' = [procs EXCEPT ![p] = [IdleWorker EXCEPT !.pc = "usage", !.op = "updateStorageUsage",
                                                      !.user = u, !.delta = deltaBytes]]
  /\ UNCHANGED <<files, blobs, presigned, userAssets, folders, userQuotas, declared,
                 concFrame>>

AdjustStep(p) ==
  LET w == procs[p]
  IN /\ w.pc = "usage"
     /\ userQuotas' = UpdateStorageUsage(userQuotas, w.user, w.delta)
     /\ procs' = [procs EXCEPT ![p] =
          [Finished(w, "OK") EXCEPT !.seen = IF w.user \in DOMAIN userQuotas
                                               THEN userQuotas[w.user].storageUsed ELSE 0]]
     /\ UNCHANGED <<files, blobs, presigned, userAssets, folders, declared, concFrame>>

NextUsage ==
  \E p \in 1..MaxAdjusters :
    \/ \E deltaBytes \in Deltas : StartAdjust(p, "u1", deltaBytes)
    \/ AdjustStep(p)

SpecUsage == InitUsage /\ [][NextUsage]_vars

Adjusted == {p \in DOMAIN procs : procs[p].pc = "done"}

HitFloor == \E p \in Adjusted : procs[p].seen + procs[p].delta < 0

\* C25: updateStorageUsage(user, delta) sets storageUsed to max(0, storageUsed + delta)
\* in one step (max(0, delta) without a quota row), so storageUsed is never negative,
\* and concurrent adjustments that never hit the floor leave storageUsed equal to the
\* initial value plus the sum of their deltas.
C25_ClampedAdd ==
  /\ \A u \in DOMAIN userQuotas : userQuotas[u].storageUsed >= 0
  /\ \A p \in Adjusted : StorageUsed("u1") >= 0 /\ "u1" \in DOMAIN userQuotas
  /\ ~HitFloor =>
       StorageUsed("u1") = SumOver(declared, DOMAIN declared)
                           + SumOver([p \in Adjusted |-> procs[p].delta], Adjusted)

C25_Witness ==
  /\ Adjusted = DOMAIN procs
  /\ ~HitFloor
  /\ \E p, q \in Adjusted : procs[p].delta < 0 /\ procs[q].delta > 0
  /\ StorageUsed("u1") > 0

---------------------------------------------------------------------------
(* Properties of overlapping purges of one asset (SpecStore) *)

PurgesOf(id) ==
  {p \in DOMAIN procs : procs[p].op \in {"deleteAsset", "permanentlyDelete"} /\ procs[p].id = id}

\* The purge has committed its transaction: it released a reference and lowers the usage
Released(p) == procs[p].pc = "usage" \/ (procs[p].pc = "done" /\ procs[p].res = "OK")

\* C26: when two purge calls naming the same asset overlap, only one of them releases
\* a reference and lowers the owner's storageUsed, and no purge deletes the blob while
\* another asset still references the hash.
C26_PurgeOnce ==
  /\ \A id \in AssetIds : Cardinality({p \in PurgesOf(id) : Released(p)}) <= 1
  /\ \A id \in AssetIds : \A p \in PurgesOf(id) :
       procs[p].s3del > 0 => procs[p].res # "INTERNAL_SERVER_ERROR"

---------------------------------------------------------------------------
(* Properties of the hierarchy's states (SpecTree) *)

\* C27: in every state no active asset has a folderId naming a trashed folder and
\* no active folder has a trashed parent.
C27_HierarchyConsistent ==
  /\ \A a \in DOMAIN userAssets :
       (~userAssets[a].deletedAt /\ userAssets[a].folderId \in DOMAIN folders)
         => ~folders[userAssets[a].folderId].deletedAt
  /\ \A f \in DOMAIN folders :
       (~folders[f].deletedAt /\ folders[f].parentId \in DOMAIN folders)
         => ~folders[folders[f].parentId].deletedAt

\* C28: moveFolderToTrash(F) immediately followed by restoreFolderFromTrash(F)
\* leaves every folder and asset in the active / trashed state it had before the
\* trash; what was already trashed on its own stays trashed.
C28_TrashRestoreRoundTrip ==
  [][(last'.op = "moveFolderToTrash" /\ last'.result = "OK") =>
       LET u   == last'.user
           out == RestoreCascade(folders', userAssets', u, last'.id)
       IN /\ RestoreFolderCheck(folders', u, last'.id) = "OK"
          /\ \A f \in DOMAIN folders : out.folders[f].deletedAt = folders[f].deletedAt
          /\ \A a \in DOMAIN userAssets :
               out.userAssets[a].deletedAt = userAssets[a].deletedAt]_vars

---------------------------------------------------------------------------
(* Properties of overlapping moves (SpecMove) *)

\* C30: in every hierarchy state reachable through the API, overlapping moves
\* included, every call finishes its parent-chain walk and returns: no request is
\* left in a walk that never ends.
C30_WalksTerminate == \A p \in DOMAIN procs : procs[p].pc # "walking"

====
